---- MODULE Spec2Model ----
(***************************************************************************)
(* Semantic Graph RAG (semantic_graph_rag.py, enhanced_query.py).          *)
(*                                                                         *)
(* The model has three parts, each with its own specification:             *)
(*   Spec         the SemanticGraphRAG object driving the graph store:     *)
(*                setup_graph_store, ingest_documents_semantically         *)
(*   SpecExtract  SemanticEntityExtractor.extract_entities_from_chunk as   *)
(*                a function of the completion service's reply             *)
(*   SpecQuery    the two answer operations, query_with_chain_of_thought   *)
(*                and enhanced_query                                       *)
(*   SpecCap      as Spec, with a corpus larger than the cap of the loop   *)
(*   SpecMain     main: setup, ingestion, query engine, the test queries   *)
(*                                                                         *)
(* Text is modelled as a sequence of tokens.  A completion reply is a      *)
(* sequence over the tokens below; a retrieved fragment is a sequence of   *)
(* characters.                                                             *)
(***************************************************************************)
EXTENDS Integers, Sequences, FiniteSets, TLC

VARIABLES
    \* ---- the graph store (Neo4j) and the SemanticGraphRAG object ----
    corpus,        \* the loaded document chunks (their texts), in loader order
    nodes,         \* nodes of the property graph
    edges,         \* relationships of the property graph
    graph_store,   \* self.graph_store: "None" or "connected"
    pc,            \* "idle" or "ingest" (inside the loop of an ingestion run)
    docs,          \* documents argument of the ingestion run in progress
    i,             \* loop index of the ingestion run in progress
    outcome,       \* how the last call ended: "none", "returned", "raised"
    cleared,       \* TRUE iff a clear of the store has succeeded
    prevLen,       \* history: chunks passed to the last run before the last clear, or -1
    runLog,        \* history: one record per ingestion run since the last clear
    \* ---- the extractor ----
    reply,         \* outcome of client.chat.completions.create for a chunk
    extraction,    \* outcome of extract_entities_from_chunk, or NoCall
    \* ---- the answer operations ----
    retrieved,     \* fragments handed to the answer operation
    service,       \* what the completion service does for the answer prompt
    answer,        \* outcome of the answer operation, or NoCall
    \* ---- main ----
    main           \* the line main is at and the test queries it has issued

ingestVars == <<corpus, nodes, edges, graph_store, pc, docs, i, outcome,
                cleared, prevLen, runLog>>
extractVars == <<reply, extraction>>
queryVars == <<retrieved, service, answer>>
vars == <<ingestVars, extractVars, queryVars, main>>

NoCall == [op |-> "none"]

-----------------------------------------------------------------------------
(* Bounds of the model *)

MaxDocs == 2        \* chunks in the loaded corpus
MaxRuns == 2        \* ingestion runs without a clear in between
MaxReplyLen == 4    \* tokens in a completion reply
MaxRetrieved == 6   \* fragments handed to an answer operation

-----------------------------------------------------------------------------
(* Generic sequence helpers (Python slicing, str.split, str.join) *)

Min(a, b) == IF a < b THEN a ELSE b

\* s[n:]
Drop(s, n) == SubSeq(s, Min(n, Len(s)) + 1, Len(s))

\* Mutant: the slice is not taken.
TakeAll(s, n) == s

\* s[:n]
Take(s, n) == SubSeq(s, 1, Min(n, Len(s)))

\* s.startswith(p)
StartsWith(s, p) == Len(s) >= Len(p) /\ SubSeq(s, 1, Len(p)) = p

\* s.find(sep): least k with s[k..k+len(sep)-1] = sep, or 0
Find(s, sep) ==
    LET hits == {k \in 1..(Len(s) - Len(sep) + 1) : SubSeq(s, k, k + Len(sep) - 1) = sep}
    IN  IF hits = {} THEN 0 ELSE CHOOSE k \in hits : \A h \in hits : k <= h

\* s.split(sep): the pieces of s between the occurrences of sep, left to right
RECURSIVE Split(_, _)
Split(s, sep) ==
    LET k == Find(s, sep)
    IN  IF k = 0 THEN <<s>>
        ELSE <<SubSeq(s, 1, k - 1)>> \o Split(Drop(s, k + Len(sep) - 1), sep)

-----------------------------------------------------------------------------
(* The completion service's replies and the JSON texts they can carry *)

Fence == "<fence>"      \* a Markdown code fence (three backticks)
JsonTag == "json"       \* the language tag after an opening fence
Newline == "\n"         \* whitespace
Prose == "x"            \* any text that is neither whitespace, a fence nor JSON

Entity(t, n, d) == [type |-> t, name |-> n, description |-> d]
Relationship(f, t, ty) == [from |-> f, to |-> t, type |-> ty]

\* The JSON documents a reply can carry, by their text, and json.loads of each.
JsonObject(fields) == [kind |-> "object", fields |-> fields]
JsonArray == [kind |-> "array"]

JsonValue(tok) ==
    CASE tok = "{A}" -> JsonObject(
            [entities |-> <<Entity("Concept", "Memory Management", "mm"),
                            Entity("Component", "vSphere", "hypervisor")>>,
             relationships |-> <<Relationship("Memory Management", "vSphere",
                                              "INVOLVES_COMPONENT")>>,
             chunk_summary |-> "sA"])
      [] tok = "{B}" -> JsonObject(
            [entities |-> <<[type |-> "Parameter", name |-> "numa.nodeAffinity"],
                            Entity("Component", "vSphere", "host")>>,
             relationships |-> <<Relationship("numa.nodeAffinity", "vSphere", "AFFECTS")>>,
             chunk_summary |-> "sB"])
      [] tok = "{C}" -> JsonObject(
            [entities |-> << >>,
             relationships |-> <<Relationship("Memory Management", "vSphere", "AFFECTS")>>,
             chunk_summary |-> "sC"])
      [] tok = "{D}" -> JsonObject(
            [entities |-> <<Entity("Concept", "vSphere", "virtualization"),
                            [type |-> "Concept", name |-> "vSphere"]>>,
             relationships |-> <<Relationship("Memory Management", "vSphere", "AFFECTS")>>])
      [] tok = "{}" -> JsonObject(<< >>)
      [] tok = "[]" -> JsonArray

JsonDocs == {"{A}", "{B}", "{C}", "{D}", "{}", "[]"}

\* str.strip(): leading and trailing whitespace removed
RECURSIVE LStrip(_)
LStrip(s) == IF s # << >> /\ Head(s) = Newline THEN LStrip(Tail(s)) ELSE s

RECURSIVE RStrip(_)
RStrip(s) ==
    IF s # << >> /\ s[Len(s)] = Newline THEN RStrip(SubSeq(s, 1, Len(s) - 1)) ELSE s

Strip(s) == RStrip(LStrip(s))

\* json.loads: exactly one JSON document, whitespace allowed around it
JsonLoads(s) ==
    LET t == Strip(s)
    IN  IF Len(t) = 1 /\ t[1] \in JsonDocs
        THEN [ok |-> TRUE, value |-> JsonValue(t[1])]
        ELSE [ok |-> FALSE]

\* dict.get(key, default)
Get(d, key, default) == IF key \in DOMAIN d THEN d[key] ELSE default

-----------------------------------------------------------------------------
(* SemanticEntityExtractor.extract_entities_from_chunk *)

EntityExtractionResult(e, r, s) ==
    [entities |-> e, relationships |-> r, chunk_summary |-> s]

EmptyResult == EntityExtractionResult(<< >>, << >>, "")

Raised == [raised |-> TRUE]
Returned(v) == [raised |-> FALSE, value |-> v]

\* A reply of the completion call: the call raises ("error"), or it returns a
\* message whose content is None ("null") or a text ("text").
ReplyError == [status |-> "error"]
ReplyNull == [status |-> "null"]
ReplyText(c) == [status |-> "text", content |-> c]

\* lines 121-122: the fence is removed only when the reply starts with a fence and json
Unfence(json_str) ==
    IF StartsWith(json_str, <<Fence, JsonTag>>)
    THEN Split(Split(json_str, <<Fence, JsonTag>>)[2], <<Fence>>)[1]
    ELSE json_str

\* The body of the try block, lines 112-130: any exception ends it.
ExtractTry(r) ==
    IF r.status = "error" THEN Raised                       \* create() raises
    ELSE IF r.status = "null" THEN Raised                   \* None.strip()
    ELSE LET parsed == JsonLoads(Unfence(Strip(r.content)))
         IN  IF ~parsed.ok THEN Raised                      \* json.JSONDecodeError
             ELSE IF parsed.value.kind # "object" THEN Raised   \* no .get on a list
             ELSE Returned(EntityExtractionResult(
                      Get(parsed.value.fields, "entities", << >>),
                      Get(parsed.value.fields, "relationships", << >>),
                      Get(parsed.value.fields, "chunk_summary", "")))

\* Mutant: the except clause re-raises instead of falling back.
ExtractReraise(r) == ExtractTry(r)

\* lines 111-135: try ... except Exception: return the empty result
extract_entities_from_chunk(r) ==
    LET t == ExtractTry(r)
    IN  IF t.raised THEN Returned(EmptyResult) ELSE t

\* The replies of the extractor specification.
ReplyTokens == {Fence, JsonTag, Newline, Prose, "{A}", "{}", "[]"}

RECURSIVE SeqsUpTo(_, _)
SeqsUpTo(S, n) ==
    IF n = 0 THEN {<< >>}
    ELSE LET shorter == SeqsUpTo(S, n - 1)
         IN  shorter \cup {Append(s, x) : s \in shorter, x \in S}

Replies == {ReplyError, ReplyNull} \cup {ReplyText(c) : c \in SeqsUpTo(ReplyTokens, MaxReplyLen)}

-----------------------------------------------------------------------------
(* The graph store: a labelled property graph and the Cypher statements used *)

\* documents[:20], line 181
ChunkCap == 20

\* f"chunk_{i}"
ChunkId(k) == <<"chunk", k>>

\* entity['type'].upper(), prefixed: the type of the chunk-to-entity link
LinkType(t) ==
    CASE t = "Concept" -> "HAS_CONCEPT"
      [] t = "Parameter" -> "HAS_PARAMETER"
      [] t = "Component" -> "HAS_COMPONENT"
      [] t = "Recommendation" -> "HAS_RECOMMENDATION"

LinkTypes == {"HAS_CONCEPT", "HAS_PARAMETER", "HAS_COMPONENT", "HAS_RECOMMENDATION"}

EmptyGraph == [nodes |-> {}, edges |-> {}]

\* The internal id of the next node or relationship: above every id in use.
NextId(g) ==
    LET used == {n.id : n \in g.nodes} \cup {e.id : e \in g.edges}
    IN  IF used = {} THEN 1 ELSE 1 + CHOOSE m \in used : \A u \in used : u <= m

HasProp(n, key, v) == key \in DOMAIN n.props /\ n.props[key] = v

SetProp(props, key, v) ==
    [k \in DOMAIN props \cup {key} |-> IF k = key THEN v ELSE props[k]]

\* MATCH (n:label {key: v})
Match(g, label, key, v) == {n \in g.nodes : n.label = label /\ HasProp(n, key, v)}

\* Mutant: the pattern matches one node only, the oldest one of that name.
MatchOneName(g, v) ==
    LET named == {n \in g.nodes : HasProp(n, "name", v)}
    IN  {n \in named : \A m \in named : n.id <= m.id}

\* MATCH (n {name: v}): any label
MatchName(g, v) == {n \in g.nodes : HasProp(n, "name", v)}

NewNode(g, label, props) ==
    [g EXCEPT !.nodes = @ \cup {[id |-> NextId(g), label |-> label, props |-> props]}]

\* CREATE (d:Document {chunk_id: $chunk_id, summary: $summary}), lines 193-196
CreateDocument(g, chunk_id, summary) ==
    NewNode(g, "Document", [chunk_id |-> chunk_id, summary |-> summary])

\* Mutant: CREATE instead of MERGE for the entity node.
CreateEntity(g, type, name, description) ==
    NewNode(g, type, [name |-> name, description |-> description])

\* Mutant: the description is set only when the MERGE creates the node.
MergeEntityOnCreate(g, type, name, description) ==
    IF Match(g, type, "name", name) = {}
    THEN NewNode(g, type, [name |-> name, description |-> description])
    ELSE g

\* MERGE (e:type {name: $name}) SET e.description = $description, lines 200-206
MergeEntity(g, type, name, description) ==
    LET found == Match(g, type, "name", name)
    IN  IF found = {}
        THEN NewNode(g, type, [name |-> name, description |-> description])
        ELSE [g EXCEPT !.nodes =
                {IF n \in found
                 THEN [n EXCEPT !.props = SetProp(@, "description", description)]
                 ELSE n : n \in @}]

\* a new relationship of this type for each pair <<a, b>>, ids in pair order
NewEdges(g, pairs, type) ==
    LET Before(p, q) == p[1] < q[1] \/ (p[1] = q[1] /\ p[2] < q[2])
        Rank(p) == Cardinality({q \in pairs : Before(q, p)})
    IN  [g EXCEPT !.edges = @ \cup {[id |-> NextId(g) + Rank(p), src |-> p[1],
                                     dst |-> p[2], type |-> type] : p \in pairs}]

\* Mutant: CREATE instead of MERGE for the relationship.
CreateEdges(g, pairs, type) == NewEdges(g, pairs, type)

\* MERGE (a)-[:type]->(b) for every matched pair <<a, b>>: a relationship is
\* created only between pairs that have none of this type yet.
MergeEdges(g, pairs, type) ==
    NewEdges(g, {p \in pairs :
                   ~\E e \in g.edges : e.src = p[1] /\ e.dst = p[2] /\ e.type = type},
             type)

\* Mutant: the entity is not linked to the Document node.
SkipLink(g, chunk_id, type, name) == g

\* MATCH (d:Document {chunk_id}) MATCH (e:type {name}) MERGE (d)-[:HAS_TYPE]->(e),
\* lines 209-214
LinkToDocument(g, chunk_id, type, name) ==
    MergeEdges(g, {<<d.id, e.id>> : d \in Match(g, "Document", "chunk_id", chunk_id),
                                    e \in Match(g, type, "name", name)},
               LinkType(type))

\* Mutant: MERGE of the whole pattern, which creates the ends that are missing.
MergePattern(g, from_name, to_name, type) ==
    LET g1 == IF MatchName(g, from_name) = {}
              THEN NewNode(g, "", [name |-> from_name]) ELSE g
        g2 == IF MatchName(g1, to_name) = {}
              THEN NewNode(g1, "", [name |-> to_name]) ELSE g1
    IN  MergeEdges(g2, {<<a.id, b.id>> : a \in MatchName(g2, from_name),
                                         b \in MatchName(g2, to_name)},
                   type)

\* MATCH (a {name: $from_name}) MATCH (b {name: $to_name}) MERGE (a)-[:type]->(b),
\* lines 218-225
MergeRelationship(g, from_name, to_name, type) ==
    MergeEdges(g, {<<a.id, b.id>> : a \in MatchName(g, from_name),
                                    b \in MatchName(g, to_name)},
               type)

\* Mutant: DELETE of the entity nodes only, the Document nodes stay.
DeleteEntitiesOnly(g) ==
    LET kept == {n \in g.nodes : n.label = "Document"}
    IN  [g EXCEPT !.nodes = kept,
                  !.edges = {e \in @ : \E a, b \in kept : a.id = e.src /\ b.id = e.dst}]

\* MATCH (n) DETACH DELETE n, line 169
DetachDeleteAll(g) == [g EXCEPT !.nodes = {}, !.edges = {}]

-----------------------------------------------------------------------------
(* SemanticGraphRAG.ingest_documents_semantically: the statements of a chunk *)

\* The completion service's reply for each chunk text of the corpus.
ChunkTexts == {"A", "B", "C", "D", "E"}

Completion(text) ==
    CASE text = "A" -> ReplyText(<<"{A}">>)
      [] text = "B" -> ReplyText(<<Fence, JsonTag, Newline, "{B}", Newline, Fence>>)
      [] text = "C" -> ReplyText(<<"{C}">>)
      [] text = "D" -> ReplyText(<<Newline, "{D}">>)
      [] text = "E" -> ReplyError

\* self.extractor.extract_entities_from_chunk(doc.text), line 185
Extract(text) == extract_entities_from_chunk(Completion(text))

\* entity.get('description', '')
Description(entity) == Get(entity, "description", "")

\* The session.run calls of one loop iteration, in program order (lines 193-225).
EntityStatements(k, entities) ==
    [j \in 1..(2 * Len(entities)) |->
        LET entity == entities[(j + 1) \div 2]
        IN  IF j % 2 = 1
            THEN [op |-> "entity", type |-> entity.type, name |-> entity.name,
                  description |-> Description(entity)]
            ELSE [op |-> "link", chunk_id |-> ChunkId(k), type |-> entity.type,
                  name |-> entity.name]]

RelationshipStatements(relationships) ==
    [j \in 1..Len(relationships) |->
        [op |-> "relationship", from |-> relationships[j].from,
         to |-> relationships[j].to, type |-> relationships[j].type]]

ChunkStatements(k, ext) ==
    <<[op |-> "document", chunk_id |-> ChunkId(k), summary |-> ext.chunk_summary]>>
    \o EntityStatements(k, ext.entities)
    \o RelationshipStatements(ext.relationships)

\* session.run of one statement
Run(g, stmt) ==
    CASE stmt.op = "document" -> CreateDocument(g, stmt.chunk_id, stmt.summary)
      [] stmt.op = "entity" -> MergeEntity(g, stmt.type, stmt.name, stmt.description)
      [] stmt.op = "link" -> LinkToDocument(g, stmt.chunk_id, stmt.type, stmt.name)
      [] stmt.op = "relationship" -> MergeRelationship(g, stmt.from, stmt.to, stmt.type)

\* the first n statements, each committed on its own
RECURSIVE RunAll(_, _, _)
RunAll(g, stmts, n) ==
    IF n = 0 THEN g ELSE Run(RunAll(g, stmts, n - 1), stmts[n])

\* Mutant: a chunk is skipped only when it has no relationships either.
NothingExtracted(ext) == ext.entities = << >> /\ ext.relationships = << >>

\* if not extraction.entities: continue, lines 187-188
NoEntities(ext) == ext.entities = << >>

\* Mutant: the statements of the chunk are rolled back when one of them raises.
RolledBack(g, stmts, n) == g

\* what the store holds when statement n + 1 of a chunk raises: every
\* session.run is committed on its own, so the first n statements stay
Committed(g, stmts, n) == RunAll(g, stmts, n)

\* One iteration of the loop for chunk k (0-based) with no store failure.
IngestOne(g, k, text) ==
    LET ext == Extract(text).value
    IN  IF NoEntities(ext) THEN g
        ELSE LET stmts == ChunkStatements(k, ext) IN RunAll(g, stmts, Len(stmts))

\* A whole run over documents with no store failure: chunks 0 .. n-1 in order.
RECURSIVE IngestAll(_, _, _)
IngestAll(g, documents, n) ==
    IF n = 0 THEN g
    ELSE IngestOne(IngestAll(g, documents, n - 1), n - 1, documents[n])

-----------------------------------------------------------------------------
(* The SemanticGraphRAG object: state and actions *)

Graph == [nodes |-> nodes, edges |-> edges]

SetGraph(g) == nodes' = g.nodes /\ edges' = g.edges

\* what a caller passes as documents: the corpus, the corpus without up to
\* MaxDocs of its last chunks, or the corpus without its first chunk
Slices ==
    {SubSeq(corpus, 1, b) : b \in {c \in 0..Len(corpus) : Len(corpus) - c <= MaxDocs}}
        \cup {Drop(corpus, 1)}

\* The caller of the object's methods.  Either the methods are called freely
\* (main.at = "none"), or main calls them, each at its line: main.at is the
\* statement main is at, main.query the test queries issued so far.
NoMain == [at |-> "none", query |-> 0]

\* Mutant: main issues the test queries before it ingests.
QueriesFirst(at) ==
    CASE at = "setup" -> "query_engine"
      [] at = "query_engine" -> "queries"
      [] at = "queries" -> "ingest"
      [] at = "ingest" -> "stats"
      [] at = "stats" -> "done"

\* main, lines 305-346: the statement after each one
Following(at) ==
    CASE at = "setup" -> "ingest"                \* line 305 -> 306
      [] at = "ingest" -> "query_engine"         \* line 306 -> 307
      [] at = "query_engine" -> "queries"        \* line 307 -> 319
      [] at = "queries" -> "stats"               \* line 319 -> 331
      [] at = "stats" -> "done"                  \* line 346

CalledAt(at) == main.at \in {"none", at}

\* the call returns and main goes on, or it raises: main has no handler
\* around these calls, the exception ends it
Advance(raised) ==
    main' = IF main.at = "none" THEN main
            ELSE IF raised THEN [main EXCEPT !.at = "exit"]
            ELSE [main EXCEPT !.at = Following(main.at)]

\* the end of the run in progress: the method's locals are gone, and the
\* history keeps how it ended (failedAt: the chunk whose store write raised,
\* failedStmt: which of its statements)
EndRun(status, g, failedAt, failedStmt) ==
    /\ pc' = "idle" /\ docs' = << >> /\ i' = 0
    /\ outcome' = status
    /\ Advance(status = "raised")
    /\ runLog' = [runLog EXCEPT ![Len(runLog)] =
                    [@ EXCEPT !.status = status, !.processed = i, !.failedAt = failedAt,
                              !.failedStmt = failedStmt,
                              !.nodes = Cardinality(g.nodes),
                              !.edges = Cardinality(g.edges)]]

\* the object after construction (lines 142-153), the store empty
InitObject ==
    /\ nodes = {} /\ edges = {}
    /\ graph_store = "None"
    /\ pc = "idle" /\ docs = << >> /\ i = 0
    /\ outcome = "none"
    /\ cleared = FALSE /\ prevLen = -1
    /\ runLog = << >>

\* no extractor call and no answer operation under way
InitExtractIdle == reply = ReplyError /\ extraction = NoCall
InitQueryIdle == retrieved = << >> /\ service = "fail" /\ answer = NoCall

Init ==
    /\ corpus \in SeqsUpTo(ChunkTexts, MaxDocs)
    /\ InitObject
    /\ InitExtractIdle
    /\ InitQueryIdle
    /\ main = NoMain

\* setup_graph_store, lines 155-170: connect, then clear.  The constructor or
\* the DETACH DELETE statement may raise.
SetupGraphStore ==
    /\ pc = "idle"
    /\ CalledAt("setup")
    /\ \E result \in {"ok", "connect_failed", "clear_failed"} :
         /\ Advance(result # "ok")
         /\ graph_store' = IF result = "connect_failed" THEN graph_store ELSE "connected"
         /\ SetGraph(IF result = "ok" THEN DetachDeleteAll(Graph) ELSE Graph)
         /\ outcome' = IF result = "ok" THEN "returned" ELSE "raised"
         /\ cleared' = (result = "ok" \/ cleared)
         /\ IF result = "ok"
            THEN /\ runLog' = << >>
                 /\ prevLen' = IF runLog = << >> THEN prevLen
                               ELSE Len(runLog[Len(runLog)].docs)
            ELSE UNCHANGED <<runLog, prevLen>>
    /\ UNCHANGED <<corpus, pc, docs, i, extractVars, queryVars>>

\* ingest_documents_semantically(documents): entry, lines 177-181.  A caller
\* whose last call raised does not go on to ingest: in main an exception of
\* setup or ingestion ends the process, and the next one sets up first.
IngestStart ==
    /\ pc = "idle"
    /\ CalledAt("ingest")
    /\ outcome # "raised"
    /\ Len(runLog) < MaxRuns
    /\ \E documents \in Slices :
         /\ main.at = "ingest" => documents = corpus      \* line 306: docs
         /\ docs' = documents
         /\ runLog' = Append(runLog, [docs |-> documents, status |-> "running",
                                      processed |-> 0, failedAt |-> -1,
                                      failedStmt |-> 0,
                                      nodes |-> 0, edges |-> 0])
    /\ pc' = "ingest" /\ i' = 0
    /\ outcome' = "none"
    /\ UNCHANGED <<corpus, nodes, edges, graph_store, cleared, prevLen,
                   extractVars, queryVars, main>>

\* One iteration of the loop, lines 181-225, for chunk i.  A store write may
\* raise: the statements before it are committed and the exception leaves the
\* method, which has no handler.
IngestChunk ==
    /\ pc = "ingest"
    /\ i < Len(Take(docs, ChunkCap))
    /\ LET call == Extract(docs[i + 1])
           stmts == ChunkStatements(i, call.value)
       IN  IF call.raised
           THEN \* the extractor raised: nothing catches it here
                /\ EndRun("raised", Graph, -1, 0)
                /\ UNCHANGED <<nodes, edges>>
           ELSE IF NoEntities(call.value)
           THEN \* line 187-188: continue
                /\ i' = i + 1
                /\ UNCHANGED <<nodes, edges, pc, docs, outcome, runLog, main>>
           ELSE IF graph_store = "None"
           THEN \* self.graph_store._driver: AttributeError
                /\ EndRun("raised", Graph, -1, 0)
                /\ UNCHANGED <<nodes, edges>>
           ELSE \E fail \in 0..Len(stmts) :
                  IF fail = 0
                  THEN /\ SetGraph(RunAll(Graph, stmts, Len(stmts)))
                       /\ i' = i + 1
                       /\ UNCHANGED <<pc, docs, outcome, runLog, main>>
                  ELSE \* statement number fail raises
                       LET partial == Committed(Graph, stmts, fail - 1)
                       IN  SetGraph(partial) /\ EndRun("raised", partial, i, fail)
    /\ UNCHANGED <<corpus, graph_store, cleared, prevLen, extractVars, queryVars>>

\* the loop is exhausted: line 227, the method returns
IngestReturn ==
    /\ pc = "ingest"
    /\ i = Len(Take(docs, ChunkCap))
    /\ EndRun("returned", Graph, -1, 0)
    /\ UNCHANGED <<corpus, nodes, edges, graph_store, cleared, prevLen,
                   extractVars, queryVars>>

Next == SetupGraphStore \/ IngestStart \/ IngestChunk \/ IngestReturn

Spec == Init /\ [][Next]_vars

-----------------------------------------------------------------------------
(* The same object with a corpus larger than the cap of the loop *)

\* Corpora of ChunkCap + 1 chunks: chunks without entities, then one with
\* entities at the last position inside the cap and one right after it.
LongCorpora ==
    {[k \in 1..(ChunkCap + 1) |->
         IF k < ChunkCap THEN "C" ELSE IF k = ChunkCap THEN x ELSE y] :
        x, y \in {"A", "B"}}

InitCap ==
    /\ corpus \in LongCorpora
    /\ InitObject
    /\ InitExtractIdle
    /\ InitQueryIdle
    /\ main = NoMain

SpecCap == InitCap /\ [][Next]_vars

-----------------------------------------------------------------------------
(* The extractor on its own: every reply the completion call can give *)

InitExtract ==
    /\ reply \in Replies
    /\ extraction = NoCall
    /\ corpus = << >>
    /\ InitObject
    /\ InitQueryIdle
    /\ main = NoMain

\* extract_entities_from_chunk(text_chunk), the completion call giving reply
ExtractCall ==
    /\ extraction = NoCall
    /\ extraction' = [op |-> "extract"] @@ extract_entities_from_chunk(reply)
    /\ UNCHANGED <<reply, ingestVars, queryVars, main>>

NextExtract == ExtractCall

SpecExtract == InitExtract /\ [][NextExtract]_vars

-----------------------------------------------------------------------------
(* The answer operations: query_with_chain_of_thought and enhanced_query *)

\* context_chunks[:5] and chunk.text[:500], enhanced_query.py line 24
MaxFragments == 5
FragmentChars == 500

\* A character of a fragment is <<k, j>>: character j of fragment k.  The
\* characters the operations add are the newline of "\n".join and the two
\* characters of the bullet "- ".
NewlineChar == <<0, 0>>
Bullet == <<<<0, 1>>, <<0, 2>>>>

FragmentText(k, len) == [j \in 1..len |-> <<k, j>>]

TextLens == {1, FragmentChars, FragmentChars + 1}

\* "\n".join(parts)
RECURSIVE Join(_)
Join(parts) ==
    IF parts = << >> THEN << >>
    ELSE IF Len(parts) = 1 THEN parts[1]
    ELSE Join(SubSeq(parts, 1, Len(parts) - 1)) \o <<NewlineChar>> \o parts[Len(parts)]

\* client.chat.completions.create for the answer prompt: it raises, or returns
\* a message with this content
ServiceStates == {"fail", "empty", "text"}
Content(svc) == IF svc = "empty" THEN "" ELSE "answer"

\* lines 254-258: one bullet line per retrieved node, all of them, uncut
CotContext(fragments) ==
    Join([k \in 1..Len(fragments) |-> Bullet \o fragments[k]])

\* enhanced_query.py line 24: the first 5 chunks, 500 characters of each
EnhancedContext(context_chunks) ==
    LET first == Take(context_chunks, MaxFragments)
    IN  Join([k \in 1..Len(first) |-> Take(first[k], FragmentChars)])

\* the completion call and the return, lines 276-283 and enhanced_query.py
\* lines 41-48: there is no handler around either
Answer(context, svc) ==
    IF svc = "fail" THEN [raised |-> TRUE, context |-> context]
    ELSE [raised |-> FALSE, context |-> context, value |-> Content(svc)]

\* Mutant: a failure of the completion call is swallowed and "" is returned.
CotWithFallback(fragments, svc) ==
    [raised |-> FALSE, context |-> CotContext(fragments),
     value |-> IF svc = "fail" THEN "" ELSE Content(svc)]

\* query_with_chain_of_thought, lines 243-283, given what retrieve returned
query_with_chain_of_thought(fragments, svc) == Answer(CotContext(fragments), svc)

\* enhanced_query, enhanced_query.py lines 20-48
enhanced_query(context_chunks, svc) == Answer(EnhancedContext(context_chunks), svc)

InitQuery ==
    /\ \E lens \in SeqsUpTo(TextLens, MaxRetrieved) :
         retrieved = [k \in 1..Len(lens) |-> FragmentText(k, lens[k])]
    /\ service \in ServiceStates
    /\ answer = NoCall
    /\ corpus = << >>
    /\ InitObject
    /\ InitExtractIdle
    /\ main = NoMain

QueryWithChainOfThought ==
    /\ answer = NoCall
    /\ answer' = [op |-> "query_with_chain_of_thought"]
                 @@ query_with_chain_of_thought(retrieved, service)
    /\ UNCHANGED <<retrieved, service, ingestVars, extractVars, main>>

EnhancedQuery ==
    /\ answer = NoCall
    /\ answer' = [op |-> "enhanced_query"] @@ enhanced_query(retrieved, service)
    /\ UNCHANGED <<retrieved, service, ingestVars, extractVars, main>>

NextQuery == QueryWithChainOfThought \/ EnhancedQuery

SpecQuery == InitQuery /\ [][NextQuery]_vars

-----------------------------------------------------------------------------
(* main, lines 285-346: setup, ingestion of the loaded corpus, the query    *)
(* engine, the test queries, the statistics                                 *)

\* test_queries, lines 310-315
NumQueries == 4

\* what the retriever hands to a test query, and how the query goes: the
\* retriever raises, or the completion service does one of ServiceStates
MainRetrieved == {<< >>, <<FragmentText(1, 1)>>}
QueryCourses == {"retrieve_failed"} \cup ServiceStates

\* the object is constructed (line 302), the corpus loaded (line 298)
InitMain ==
    /\ corpus \in SeqsUpTo(ChunkTexts, MaxDocs)
    /\ InitObject
    /\ InitExtractIdle
    /\ InitQueryIdle
    /\ main = [at |-> "setup", query |-> 0]

\* setup_query_engine, lines 229-241 (called at line 307): it builds the
\* retriever and the engine and writes nothing to the store; when it raises,
\* main ends
SetupQueryEngine ==
    /\ main.at = "query_engine"
    /\ \E raised \in BOOLEAN : Advance(raised)
    /\ UNCHANGED <<ingestVars, extractVars, queryVars>>

\* one round of the loop of lines 319-328: the query is answered or its
\* exception is caught and printed, and the loop goes on either way
MainQuery ==
    /\ main.at = "queries"
    /\ main.query < NumQueries
    /\ \E fragments \in MainRetrieved, course \in QueryCourses :
         IF course = "retrieve_failed"
         THEN /\ answer' = [op |-> "query_with_chain_of_thought", raised |-> TRUE]
              /\ retrieved' = << >>
              /\ UNCHANGED service
         ELSE /\ answer' = [op |-> "query_with_chain_of_thought"]
                            @@ query_with_chain_of_thought(fragments, course)
              /\ retrieved' = fragments
              /\ service' = course
    /\ main' = [at |-> IF main.query + 1 = NumQueries
                       THEN Following(main.at) ELSE main.at,
                query |-> main.query + 1]
    /\ UNCHANGED <<ingestVars, extractVars>>

\* the statistics query, lines 331-346: a read of the store, which may raise
MainStats ==
    /\ main.at = "stats"
    /\ \E raised \in BOOLEAN : Advance(raised)
    /\ UNCHANGED <<ingestVars, extractVars, queryVars>>

NextMain ==
    \/ SetupGraphStore
    \/ IngestStart
    \/ IngestChunk
    \/ IngestReturn
    \/ SetupQueryEngine
    \/ MainQuery
    \/ MainStats

SpecMain == InitMain /\ [][NextMain]_vars

-----------------------------------------------------------------------------
(* Properties *)

Range(f) == {f[k] : k \in DOMAIN f}

IsEntity(n) == "name" \in DOMAIN n.props
IsChunk(n) == n.label = "Document" /\ "chunk_id" \in DOMAIN n.props

\* the Document nodes of chunk k (0-based) and the nodes of a (type, name) pair
ChunkNodes(k) == {n \in nodes : n.label = "Document" /\ HasProp(n, "chunk_id", ChunkId(k))}
EntityNodes(type, name) == {n \in nodes : n.label = type /\ HasProp(n, "name", name)}

\* the (type, name) pairs a chunk text lists, by its extraction result
Listed(text) == {<<e.type, e.name>> : e \in Range(Extract(text).value.entities)}

\* the chunks a run over documents processes
Processed(documents) == Len(Take(documents, ChunkCap))

LastRun == runLog[Len(runLog)]

\* an ingestion run has returned and nothing was called since that changed the store
RunReturned == pc = "idle" /\ runLog # << >> /\ LastRun.status = "returned"

\* the run that has returned is the first one since a clear of the store
FirstRunAfterClear == RunReturned /\ cleared /\ Len(runLog) = 1

\* C1: at any time, whatever runs and clears have happened and whatever the
\* extractor returned, no two nodes have the same label and the same name.
C1_OneNodePerTypeAndName ==
    \A a, b \in nodes :
        (IsEntity(a) /\ IsEntity(b) /\ a.label = b.label /\ a.props.name = b.props.name)
            => a.id = b.id

\* C1 witness: a second run without a clear has returned over the same chunks
\* as the first, so every entity of it was merged onto an existing node.
C1_Witness ==
    /\ RunReturned /\ Len(runLog) = 2
    /\ runLog[1].status = "returned"
    /\ runLog[1].docs = runLog[2].docs
    /\ \E n \in nodes : IsEntity(n)

\* C2: when two runs over the same chunks return one after the other with no
\* clear in between, the node count and the edge count of the graph after the
\* second equal those after the first.
C2_RerunKeepsCounts ==
    \A k \in 1..(Len(runLog) - 1) :
        (/\ runLog[k].status = "returned"
         /\ runLog[k + 1].status = "returned"
         /\ runLog[k].docs = runLog[k + 1].docs)
            => (runLog[k + 1].nodes = runLog[k].nodes /\ runLog[k + 1].edges = runLog[k].edges)

\* C4: a store write that raises while chunk k is processed does not end the
\* run with an exception: a run in which a write failed is still going on or
\* has returned after going through all its chunks.
C4_WriteFailureDoesNotAbort ==
    \A k \in 1..Len(runLog) :
        runLog[k].failedAt >= 0
            => (/\ runLog[k].status # "raised"
                /\ (runLog[k].status = "returned"
                      => runLog[k].processed = Processed(runLog[k].docs)))

\* the entity nodes of a graph by (label, name), and the edges between them by
\* the (label, name) of their ends and their type: descriptions left out
EntityView(g) ==
    LET KeyOf(id) == LET n == CHOOSE m \in g.nodes : m.id = id
                     IN  <<n.label, n.props.name>>
        named == {n.id : n \in {m \in g.nodes : IsEntity(m)}}
    IN  [nodes |-> {KeyOf(id) : id \in named},
         edges |-> {<<KeyOf(e.src), e.type, KeyOf(e.dst)>> :
                       e \in {x \in g.edges : x.src \in named /\ x.dst \in named}}]

Permutations1(n) == {f \in [1..n -> 1..n] : \A a, b \in 1..n : a # b => f[a] # f[b]}

\* C5: after the first run into a cleared store has returned, the entity nodes
\* and the edges between them are those that any other processing order of the
\* same chunks gives.
C5_OrderIndependent ==
    FirstRunAfterClear =>
        LET d == LastRun.docs
        IN  \A f \in Permutations1(Len(d)) :
                EntityView(IngestAll(EmptyGraph, [k \in 1..Len(d) |-> d[f[k]]], Processed(d)))
                    = EntityView(Graph)

\* C6: after a run has returned, every (type, name) a processed chunk listed
\* has a single node, and each Document node of that chunk has exactly one
\* link edge to it, of type HAS_<TYPE>; after the first run into a cleared
\* store each such chunk has one Document node, whose outgoing edges are as
\* many as the distinct entities the chunk listed.
C6_SharedEntityLinks ==
    RunReturned =>
        LET d == LastRun.docs
        IN  \A k \in 1..Processed(d) :
                /\ \A p \in Listed(d[k]) :
                      /\ Cardinality(EntityNodes(p[1], p[2])) = 1
                      /\ ChunkNodes(k - 1) # {}
                      /\ \A dn \in ChunkNodes(k - 1), e \in EntityNodes(p[1], p[2]) :
                            LET links == {x \in edges : x.src = dn.id /\ x.dst = e.id}
                            IN  /\ Cardinality(links) = 1
                                /\ \A x \in links : x.type = LinkType(p[1])
                /\ (FirstRunAfterClear /\ Listed(d[k]) # {})
                      => /\ Cardinality(ChunkNodes(k - 1)) = 1
                         /\ \A dn \in ChunkNodes(k - 1) :
                               Cardinality({x \in edges : x.src = dn.id})
                                   = Cardinality(Listed(d[k]))

\* C6 witness: two chunks of one run listed the same entity, which has one
\* node with a link edge from the Document node of each.
C6_Witness ==
    /\ FirstRunAfterClear
    /\ \E d1, d2 \in nodes, e \in nodes :
          /\ IsChunk(d1) /\ IsChunk(d2) /\ IsEntity(e)
          /\ d1.props.chunk_id # d2.props.chunk_id
          /\ \E x, y \in edges : /\ x.src = d1.id /\ x.dst = e.id
                                 /\ y.src = d2.id /\ y.dst = e.id

\* C7: when the store was cleared after a run and the next run, over fewer
\* chunks, has returned, the graph is the one this run alone builds in an
\* empty store.
C7_OnlyTheSecondRun ==
    (FirstRunAfterClear /\ Len(LastRun.docs) < prevLen)
        => Graph = IngestAll(EmptyGraph, LastRun.docs, Processed(LastRun.docs))

\* C7 witness: such a second run, which has written nodes.
C7_Witness ==
    /\ FirstRunAfterClear /\ Len(LastRun.docs) < prevLen
    /\ nodes # {}

\* the completion call failed, or what is left of the reply for json.loads is
\* no JSON object
NoJsonObject(r) ==
    \/ r.status # "text"
    \/ LET parsed == JsonLoads(Unfence(Strip(r.content)))
       IN  ~parsed.ok \/ parsed.value.kind # "object"

\* C3: extract_entities_from_chunk never raises, and when the completion call
\* failed or its reply holds no JSON object it returns the result with no
\* entities, no relationships and the empty summary.
C3_ExtractionFallsBack ==
    extraction.op = "extract" =>
        /\ ~extraction.raised
        /\ NoJsonObject(reply) => extraction.value = EmptyResult

\* C3 witness: a reply that is no JSON was answered with the empty result.
C3_Witness ==
    /\ extraction.op = "extract"
    /\ reply = ReplyText(<<Prose, "{A}">>)
    /\ ~extraction.raised /\ extraction.value = EmptyResult

\* the JSON object with text tok between code fences, with or without the
\* json tag, with or without line breaks inside the fences
Fenced(tok) ==
    {<<Fence>> \o tag \o open \o <<tok>> \o close \o <<Fence>> :
        tag \in {<< >>, <<JsonTag>>},
        open \in {<< >>, <<Newline>>},
        close \in {<< >>, <<Newline>>}}

\* the JSON objects among the reply tokens
ObjectTokens == {tok \in ReplyTokens \cap JsonDocs : JsonValue(tok).kind = "object"}

\* the result for a JSON object sent as it is: its three fields, or their defaults
ResultOf(tok) ==
    EntityExtractionResult(Get(JsonValue(tok).fields, "entities", << >>),
                           Get(JsonValue(tok).fields, "relationships", << >>),
                           Get(JsonValue(tok).fields, "chunk_summary", ""))

\* C10: a reply that is a JSON object between code fences, tagged json or
\* not, gives the result of the object sent without the fences.
C10_FenceIsStripped ==
    \A tok \in ObjectTokens :
        (extraction.op = "extract" /\ reply.status = "text" /\ reply.content \in Fenced(tok))
            => (~extraction.raised /\ extraction.value = ResultOf(tok))

\* C8: when the completion call fails, query_with_chain_of_thought ends with
\* the exception and returns no answer.
C8_CompletionFailurePropagates ==
    (answer.op = "query_with_chain_of_thought" /\ service = "fail")
        => (answer.raised /\ "value" \notin DOMAIN answer)

\* C8 witness: the completion call failed under query_with_chain_of_thought
\* with fragments retrieved.
C8_Witness ==
    /\ answer.op = "query_with_chain_of_thought"
    /\ service = "fail" /\ retrieved # << >>
    /\ answer.raised

\* C9: the context block of either answer operation holds, besides the
\* characters the join adds, only characters of the first 5 fragments and only
\* the first 500 of each.
C9_ContextIsBounded ==
    answer.op \in {"query_with_chain_of_thought", "enhanced_query"} =>
        \A c \in Range(answer.context) :
            c[1] = 0 \/ (c[1] <= MaxFragments /\ c[2] <= FragmentChars)
\* the extraction result of the chunk the loop is at
AtChunk == Extract(docs[i + 1]).value

\* C11: an iteration for a chunk whose extraction result has no entities
\* writes nothing to the store, whatever its relationships and summary, and
\* goes on to the next chunk: the run neither ends nor raises.
C11_NoEntitiesNoWrite ==
    [][(pc = "ingest" /\ i < Processed(docs) /\ AtChunk.entities = << >>)
          => /\ nodes' = nodes /\ edges' = edges
             /\ pc' = "ingest" /\ i' = i + 1 /\ docs' = docs
             /\ outcome' = outcome]_vars

\* C11 witness: the loop has passed a chunk with no entities, a relationship
\* between two names that both have nodes, and a summary; the store holds no
\* Document node for it and no edge of the relationship.
C11_Witness ==
    /\ pc = "ingest" /\ i >= 1
    /\ LET ext == Extract(docs[i]).value
       IN  /\ ext.entities = << >> /\ ext.chunk_summary # ""
           /\ \E r \in Range(ext.relationships) :
                 /\ MatchName(Graph, r.from) # {} /\ MatchName(Graph, r.to) # {}
                 /\ ~\E e \in edges : e.type = r.type
    /\ ChunkNodes(i - 1) = {}
\* the chunks of run r that lie inside the cap, by their 1-based position
InsideCap(r) == 1..Min(Len(runLog[r].docs), ChunkCap)

\* C12: a run goes through at most the first 20 chunks of its input, in
\* order.  The loop index never passes 20, no Document node carries a chunk
\* index of 20 or more, and every entity node and every edge between entities
\* comes from a chunk among the first 20 of some run since the store was empty.
C12_OnlyFirstTwenty ==
    /\ pc = "ingest" => i <= ChunkCap
    /\ \A r \in 1..Len(runLog) : runLog[r].processed <= ChunkCap
    /\ \A n \in nodes : IsChunk(n) => n.props.chunk_id[2] < ChunkCap
    /\ \A n \in nodes : IsEntity(n) =>
          \E r \in 1..Len(runLog) : \E k \in InsideCap(r) :
              <<n.label, n.props.name>> \in Listed(runLog[r].docs[k])
    /\ \A e \in edges : e.type \notin LinkTypes =>
          \E r \in 1..Len(runLog) : \E k \in InsideCap(r) :
              \E rel \in Range(Extract(runLog[r].docs[k]).value.relationships) :
                  rel.type = e.type

\* C12 witness: a run over 21 chunks has returned after 20 iterations; the
\* 20th chunk is in the graph and the entities only the 21st lists are not.
C12_Witness ==
    /\ RunReturned /\ Len(LastRun.docs) = ChunkCap + 1
    /\ LastRun.processed = ChunkCap
    /\ ChunkNodes(ChunkCap - 1) # {}
    /\ \E p \in Listed(LastRun.docs[ChunkCap + 1]) : EntityNodes(p[1], p[2]) = {}
\* the entities of the first n chunks of documents, in processing order:
\* chunk order, then list order within the chunk
RECURSIVE Occurrences(_, _)
Occurrences(documents, n) ==
    IF n = 0 THEN << >>
    ELSE Occurrences(documents, n - 1) \o Extract(documents[n]).value.entities

\* the positions of (type, name) in a list of occurrences
PositionsOf(occ, type, name) ==
    {j \in 1..Len(occ) : occ[j].type = type /\ occ[j].name = name}

\* the description an occurrence gives: its description, or the empty string
Given(o) == IF "description" \in DOMAIN o THEN o.description ELSE ""

\* C13: after a run has returned, the node of every (type, name) the run
\* processed has the description given by the last occurrence of the pair in
\* processing order, which is the empty string when that occurrence has none.
C13_LastDescriptionWins ==
    RunReturned =>
        LET occ == Occurrences(LastRun.docs, Min(Len(LastRun.docs), ChunkCap))
        IN  \A j \in 1..Len(occ) :
                LET last == CHOOSE m \in PositionsOf(occ, occ[j].type, occ[j].name) :
                                \A q \in PositionsOf(occ, occ[j].type, occ[j].name) : q <= m
                IN  /\ EntityNodes(occ[j].type, occ[j].name) # {}
                    /\ \A n \in EntityNodes(occ[j].type, occ[j].name) :
                          HasProp(n, "description", Given(occ[last]))

\* C13 witness: the last occurrence of a pair has no description, an earlier
\* one had a non-empty one, and the node's description is the empty string.
C13_Witness ==
    /\ RunReturned
    /\ LET occ == Occurrences(LastRun.docs, Min(Len(LastRun.docs), ChunkCap))
       IN  \E j, m \in 1..Len(occ) :
               /\ j < m /\ m \in PositionsOf(occ, occ[j].type, occ[j].name)
               /\ Given(occ[j]) # "" /\ "description" \notin DOMAIN occ[m]
               /\ \A q \in PositionsOf(occ, occ[j].type, occ[j].name) : q <= m
               /\ \A n \in EntityNodes(occ[j].type, occ[j].name) :
                     HasProp(n, "description", "")
\* the nodes of a node set that carry this name, whatever their label
Named(ns, name) == {n \in ns : "name" \in DOMAIN n.props /\ n.props.name = name}

\* C14: when the loop completes a chunk with entities, then for each of its
\* relationships every node named as its from end has exactly one edge of the
\* relationship's type to every node named as its to end, whatever the labels
\* of the two nodes.
C14_RelationshipsByName ==
    [][(pc = "ingest" /\ i < Processed(docs) /\ i' = i + 1 /\ AtChunk.entities # << >>)
          => \A r \in Range(AtChunk.relationships) :
                 \A a \in Named(nodes', r.from), b \in Named(nodes', r.to) :
                     Cardinality({e \in edges' : /\ e.src = a.id /\ e.dst = b.id
                                                 /\ e.type = r.type}) = 1]_vars

\* C14 witness: the Component node vSphere has in-edges of the types
\* INVOLVES_COMPONENT and AFFECTS, asserted by different chunks, and the
\* Concept node of the same name has the AFFECTS edge from the same node too.
C14_Witness ==
    \E a, b, c \in nodes :
        /\ HasProp(b, "name", "vSphere") /\ b.label = "Component"
        /\ HasProp(c, "name", "vSphere") /\ c.label = "Concept"
        /\ HasProp(a, "name", "Memory Management")
        /\ \E x, y, z \in edges :
              /\ x.src = a.id /\ x.dst = b.id /\ x.type = "INVOLVES_COMPONENT"
              /\ y.src = a.id /\ y.dst = b.id /\ y.type = "AFFECTS"
              /\ z.src = a.id /\ z.dst = c.id /\ z.type = "AFFECTS"
\* an ingestion run is under way or has been made, or a query has been issued
SomethingHappened == pc = "ingest" \/ runLog # << >> \/ nodes # {} \/ answer # NoCall

\* C15: in main nothing is extracted, written or queried unless
\* setup_graph_store has connected and cleared the store; when it fails, main
\* ends and does nothing more; the ingestion run starts in the cleared store
\* and is the only one; a query is issued only when that run has returned,
\* and the store does not change from the first query on.
C15_MainOrder ==
    /\ [](SomethingHappened => (cleared /\ graph_store = "connected"))
    /\ []((~cleared /\ outcome = "raised") => main.at = "exit")
    /\ [](Len(runLog) <= 1)
    /\ [][/\ main.at = "exit" => FALSE
          /\ (pc = "idle" /\ pc' = "ingest") => (cleared /\ nodes = {} /\ edges = {})
          /\ answer' # answer =>
                (pc = "idle" /\ Len(runLog) = 1 /\ runLog[1].status = "returned")
          /\ answer # NoCall => (nodes' = nodes /\ edges' = edges)]_vars

\* C15 witness: main has ingested a corpus that wrote nodes and has issued
\* all its test queries.
C15_Witness ==
    /\ main.at = "done" /\ main.query = NumQueries
    /\ nodes # {} /\ edges # {}
    /\ answer.op = "query_with_chain_of_thought"
    /\ runLog[1].docs = corpus
\* the names the entities of the first n chunks of documents carry
NamesUpTo(documents, n) == {o.name : o \in Range(Occurrences(documents, n))}

\* the name of the node with this id
NameOf(ns, id) == (CHOOSE n \in ns : n.id = id).props.name

\* C16: a relationship with an end that names no node in the store when it
\* is processed leaves nothing behind.  An iteration adds the Document node
\* and one node per listed (type, name) that had none, and no other node;
\* and after the first run into a cleared store every edge between entities
\* is one that some chunk asserted when both its ends had been listed by that
\* chunk or an earlier one, so an end listed only later gets no edge.
C16_DanglingRelationshipDropped ==
    /\ [](FirstRunAfterClear =>
            \A e \in edges : e.type \notin LinkTypes =>
                \E k \in 1..Min(Len(LastRun.docs), ChunkCap) :
                    \E r \in Range(Extract(LastRun.docs[k]).value.relationships) :
                        /\ r.type = e.type
                        /\ r.from = NameOf(nodes, e.src) /\ r.to = NameOf(nodes, e.dst)
                        /\ {r.from, r.to} \subseteq NamesUpTo(LastRun.docs, k))
    /\ [][(pc = "ingest" /\ i < Processed(docs) /\ i' = i + 1 /\ AtChunk.entities # << >>)
            => Cardinality(nodes') =
                 Cardinality(nodes) + 1
                   + Cardinality({p \in Listed(docs[i + 1]) : EntityNodes(p[1], p[2]) = {}})]_vars

\* C16 witness: the first run into a cleared store has returned; a chunk of
\* it asserted a relationship whose from end was listed only by a later
\* chunk; both names have nodes now and no edge of that type exists.
C16_Witness ==
    /\ FirstRunAfterClear
    /\ \E k \in 1..Len(LastRun.docs) :
          /\ Extract(LastRun.docs[k]).value.entities # << >>
          /\ \E r \in Range(Extract(LastRun.docs[k]).value.relationships) :
                /\ r.from \notin NamesUpTo(LastRun.docs, k)
                /\ r.from \in NamesUpTo(LastRun.docs, Len(LastRun.docs))
                /\ Named(nodes, r.from) # {} /\ Named(nodes, r.to) # {}
                /\ ~\E e \in edges : e.type = r.type
\* the link edges: from a Document node of a chunk to an entity node, of the
\* type HAS_<TYPE> of the entity's label
Links ==
    {e \in edges :
        \E d \in nodes, n \in nodes :
            /\ IsChunk(d) /\ IsEntity(n) /\ ~IsChunk(n)
            /\ e.src = d.id /\ e.dst = n.id /\ e.type = LinkType(n.label)}

\* C17: when a run has returned and every run since the last clear of the
\* store has, no node is an orphan: every entity node has a link edge coming
\* in from a Document node, every Document node has a link edge going out to
\* an entity node, and every node is one or the other.
C17_NoOrphans ==
    (cleared /\ RunReturned /\ \A r \in 1..Len(runLog) : runLog[r].status = "returned")
        => \A n \in nodes :
               /\ IsChunk(n) \/ IsEntity(n)
               /\ IsChunk(n) => \E e \in Links : e.src = n.id
               /\ ~IsChunk(n) => \E e \in Links : e.dst = n.id

\* C17 witness: the first run into a cleared store has returned with Document
\* nodes of two chunks and an entity that one of them alone lists.
C17_Witness ==
    /\ FirstRunAfterClear
    /\ ChunkNodes(0) # {} /\ ChunkNodes(1) # {}
    /\ \E n \in nodes : IsEntity(n) /\ Cardinality({e \in Links : e.dst = n.id}) = 1
\* C18: when a store write raises in the first run into a cleared store, at
\* statement s of chunk k, the graph is what the earlier chunks and the first
\* s - 1 statements of chunk k wrote: nothing of it is undone.  In particular
\* the Document node of chunk k is there unless its creation was the
\* statement that raised.
C18_NothingRolledBack ==
    (cleared /\ pc = "idle" /\ Len(runLog) = 1 /\ LastRun.status = "raised"
       /\ LastRun.failedAt >= 0)
        => LET k == LastRun.failedAt
               d == LastRun.docs
               stmts == ChunkStatements(k, Extract(d[k + 1]).value)
           IN  /\ Graph = RunAll(IngestAll(EmptyGraph, d, k), stmts, LastRun.failedStmt - 1)
               /\ LastRun.failedStmt > 1 => ChunkNodes(k) # {}
               /\ \A j \in 1..k : Listed(d[j]) # {} => ChunkNodes(j - 1) # {}

\* C18 witness: the run raised in its second chunk after the Document node
\* and the first entity of that chunk were written; the graph holds them
\* and the Document node of the first chunk.
C18_Witness ==
    /\ cleared /\ pc = "idle" /\ Len(runLog) = 1 /\ LastRun.status = "raised"
    /\ LastRun.failedAt = 1 /\ LastRun.failedStmt = 3
    /\ ChunkNodes(0) # {} /\ ChunkNodes(1) # {}
    /\ ~\E e \in edges : \E dn \in ChunkNodes(1) : e.src = dn.id

====
